---- MODULE Spec2Model ----
(***************************************************************************)
(* The spinlock crate (src/src/lib.rs): a Spinlock<T> made of an atomic    *)
(* boolean flag `lock` and a payload cell `data`, and the SpinlockGuard    *)
(* handed out by lock() and try_lock(), whose drop clears the flag.        *)
(*                                                                         *)
(* One Spinlock is shared by the threads of Threads.  Every access to the  *)
(* flag (a compare_and_swap, a store) is one atomic step; the steps of a   *)
(* call that touch only the calling thread's own state are separate steps, *)
(* so a guard is constructed after the compare_and_swap that won the flag. *)
(* The payload is an ordinary (non-atomic) memory cell: a thread is        *)
(* entitled to the cell's latest value only if that write happens-before   *)
(* its access, which the orderings of the flag operations decide.          *)
(***************************************************************************)
EXTENDS Integers, Sequences, FiniteSets

\* ------------------------------------------------------------------ bounds
NumThreads == 2          \* spawned threads sharing the lock
MaxVal == 1              \* payload values of the generic client are 0..MaxVal
K == 2                   \* iterations of each thread of the increment program

\* ------------------------------------------------------- threads and payloads
Main == 0                                 \* the thread that constructs the lock
Threads == 1 .. NumThreads                \* the threads spawned with a reference to it
Procs == {Main} \cup Threads
Values == 0 .. MaxVal                     \* T = uint, cut to a finite range
Unit == <<>>                              \* T = (), the payload of a StaticSpinlock

\* core::option::Option
None == <<>>
Some(v) == <<v>>

VARIABLES
    lock,          \* Spinlock.lock: the AtomicBool flag (TRUE = locked)
    data,          \* Spinlock.data: the payload cell, latest value in memory
    released,      \* the latest store to the flag carries a view holding the payload's latest write
    fresh,         \* fresh[t]: the payload's latest write happens-before thread t's next access
    pc,            \* pc[t]: where thread t is inside the crate ("idle" = in its own code)
    obtained,      \* obtained[t]: what try_obtain_lock returned to t in its current call
    tried,         \* tried[t]: t's current call has made a compare_and_swap already
    guards,        \* guards[t]: live SpinlockGuard values owned by thread t
    ret,           \* ret[t]: what t's last call returned, until its guard is dropped
    local,         \* local[t]: the value t read last through its guard (an Option)
    T,             \* the payload type, as the set of its values
    user_data,     \* the argument new() was called with
    last_write,    \* the last write through any guard: None, or Some of <<value, thread>>
    outstanding,   \* successful acquisitions minus flag clears
    acquired_once, \* some compare_and_swap has won the flag already
    since_drop,    \* what happened since the last guard drop, up to the next try_lock()
    iter,          \* iter[t]: iterations thread t of the increment program has finished
    step,          \* step[t]: the statement thread t of the increment program is at
    SPLCK,         \* a StaticSpinlock made by INIT_STATIC_SPINLOCK
    static_obtained, \* static_obtained[t]: what try_obtain_lock on SPLCK returned to t
    runtime,       \* the Rust runtime (and its scheduler) is present; the crate never reads it
    mark,          \* a lap of a waiting thread: where it began and what has happened since
    handoff        \* the latest acquisition: the thread that won it, the thread that dropped its guard

hvars == <<iter, step, SPLCK, static_obtained, runtime, mark, handoff>>
vars == <<lock, data, released, fresh, pc, obtained, tried, guards, ret, local,
          T, user_data, last_write, outstanding, acquired_once, since_drop,
          iter, step, SPLCK, static_obtained, runtime, mark, handoff>>

\* ------------------------------------------------------- core::atomic
\* Ordering::SeqCst as used by the crate; an ordering synchronises as an
\* acquire (on a load or read-modify-write) and as a release (on a store).
CasOrdering == "SeqCst"
StoreOrdering_Relaxed == "Relaxed"
StoreOrdering == "SeqCst"
IsAcquire(order) == order \in {"Acquire", "AcqRel", "SeqCst"}
IsRelease(order) == order \in {"Release", "AcqRel", "SeqCst"}

INIT_ATOMIC_BOOL == FALSE

\* A compare_and_swap that stores without comparing.
compare_and_swap_blind(cur, old, new) == [prev |-> old, val |-> new]

\* AtomicBool::compare_and_swap(old, new, _): the value found, and the value left.
compare_and_swap(cur, old, new) ==
    [prev |-> cur, val |-> IF cur = old THEN new ELSE cur]

\* AtomicBool::store(val, _)
store(cur, val) == val

\* ------------------------------------------------------- Spinlock
\* A constructor that leaves the flag set.
new_locked(v) == [lock |-> TRUE, data |-> v]

\* Spinlock::new(user_data)
new(v) == [lock |-> INIT_ATOMIC_BOOL, data |-> v]

\* A static initializer that leaves the flag set.
INIT_STATIC_SPINLOCK_locked == [lock |-> TRUE, data |-> Unit]

\* const INIT_STATIC_SPINLOCK
INIT_STATIC_SPINLOCK == [lock |-> INIT_ATOMIC_BOOL, data |-> Unit]

\* A try_obtain_lock that tests the compare_and_swap's result against true.
try_obtain_lock_inverted(cur) ==
    LET cas == compare_and_swap(cur, FALSE, TRUE)
    IN  [lock |-> cas.val, ok |-> (cas.prev = TRUE)]

\* try_obtain_lock on a flag holding cur: the flag afterwards and the result.
try_obtain_lock(cur) ==
    LET cas == compare_and_swap(cur, FALSE, TRUE)
    IN  [lock |-> cas.val, ok |-> (cas.prev = FALSE)]

\* The synchronisation of a compare_and_swap by thread t: as an acquire it
\* takes the view the flag's latest store released; when it wins, its own
\* store continues that store's release sequence.
CasFresh(t) == [fresh EXCEPT ![t] = @ \/ (IsAcquire(CasOrdering) /\ released)]
CasReleased(t, ok) ==
    IF ok THEN released \/ (IsRelease(CasOrdering) /\ CasFresh(t)[t]) ELSE released

\* One compare_and_swap of thread t on the flag, by try_obtain_lock.
Attempt(t) ==
    LET r == try_obtain_lock(lock)
    IN  /\ lock' = r.lock
        /\ obtained' = [obtained EXCEPT ![t] = r.ok]
        /\ tried' = [tried EXCEPT ![t] = TRUE]
        /\ fresh' = CasFresh(t)
        /\ released' = CasReleased(t, r.ok)
        /\ outstanding' = IF r.ok THEN outstanding + 1 ELSE outstanding
        /\ acquired_once' = (acquired_once \/ r.ok)

\* A guard that can be copied: the caller ends up with two of it.
SpinlockGuard_copied(t) == [guards EXCEPT ![t] = @ + 2]

\* SpinlockGuard { lock: &self.lock, data: &mut *self.data.get() }
SpinlockGuard(t) == [guards EXCEPT ![t] = @ + 1]

\* lock(): the call, up to the loop of obtain_lock.
lock_call(t) ==
    /\ pc[t] = "idle"
    /\ pc' = [pc EXCEPT ![t] = "obtain_lock"]
    /\ ret' = [ret EXCEPT ![t] = "-"]
    /\ UNCHANGED <<lock, data, released, fresh, obtained, tried, guards, local,
                   T, user_data, last_write, outstanding, acquired_once, since_drop>>

\* An obtain_lock whose loop condition lacks the negation: it returns when an
\* attempt has failed.
obtain_lock_inverted(t) ==
    /\ pc[t] = "obtain_lock"
    /\ Attempt(t)
    /\ pc' = [pc EXCEPT ![t] = IF obtained'[t] THEN "obtain_lock" ELSE "lock_guard"]
    /\ since_drop' = IF obtained'[t] /\ since_drop = "free" THEN "taken" ELSE since_drop
    /\ UNCHANGED <<data, guards, ret, local, T, user_data, last_write>>

\* An obtain_lock that gives way: its attempt is made only when no thread of
\* a lower number is waiting.
obtain_lock_ordered(t) ==
    /\ pc[t] = "obtain_lock"
    /\ \A u \in Threads : u < t => pc[u] # "obtain_lock"
    /\ Attempt(t)
    /\ pc' = [pc EXCEPT ![t] = IF obtained'[t] THEN "lock_guard" ELSE "obtain_lock"]
    /\ since_drop' = IF obtained'[t] /\ since_drop = "free" THEN "taken" ELSE since_drop
    /\ UNCHANGED <<data, guards, ret, local, T, user_data, last_write>>

\* A reentrant obtain_lock: a caller that owns a guard of the lock passes.
obtain_lock_reentrant(t) ==
    /\ pc[t] = "obtain_lock"
    /\ Attempt(t)
    /\ pc' = [pc EXCEPT ![t] = IF obtained'[t] \/ guards[t] > 0
                                THEN "lock_guard" ELSE "obtain_lock"]
    /\ since_drop' = IF obtained'[t] /\ since_drop = "free" THEN "taken" ELSE since_drop
    /\ UNCHANGED <<data, guards, ret, local, T, user_data, last_write>>

\* An obtain_lock that yields after a failed attempt: the thread is at a
\* deschedule call before its next compare_and_swap.
obtain_lock_yielding(t) ==
    /\ pc[t] = "obtain_lock"
    /\ Attempt(t)
    /\ pc' = [pc EXCEPT ![t] = IF obtained'[t] THEN "lock_guard" ELSE "deschedule"]
    /\ since_drop' = IF obtained'[t] /\ since_drop = "free" THEN "taken" ELSE since_drop
    /\ UNCHANGED <<data, guards, ret, local, T, user_data, last_write>>

\* obtain_lock(): one iteration of `while !self.try_obtain_lock() {}`.
obtain_lock(t) ==
    /\ pc[t] = "obtain_lock"
    /\ Attempt(t)
    /\ pc' = [pc EXCEPT ![t] = IF obtained'[t] THEN "lock_guard" ELSE "obtain_lock"]
    /\ since_drop' = IF obtained'[t] /\ since_drop = "free" THEN "taken" ELSE since_drop
    /\ UNCHANGED <<data, guards, ret, local, T, user_data, last_write>>

\* lock(): the guard it returns once obtain_lock has returned.
lock_guard(t) ==
    /\ pc[t] = "lock_guard"
    /\ guards' = SpinlockGuard(t)
    /\ ret' = [ret EXCEPT ![t] = "Guard"]
    /\ pc' = [pc EXCEPT ![t] = "idle"]
    /\ obtained' = [obtained EXCEPT ![t] = FALSE]
    /\ tried' = [tried EXCEPT ![t] = FALSE]
    /\ UNCHANGED <<lock, data, released, fresh, local, T,
                   user_data, last_write, outstanding, acquired_once, since_drop>>

\* try_lock(): the call.
try_lock_call(t) ==
    /\ pc[t] = "idle"
    /\ pc' = [pc EXCEPT ![t] = "try_lock"]
    /\ ret' = [ret EXCEPT ![t] = "-"]
    /\ UNCHANGED <<lock, data, released, fresh, obtained, tried, guards, local,
                   T, user_data, last_write, outstanding, acquired_once, since_drop>>

\* A try_lock that retries a failed attempt, as obtain_lock does.
try_lock_cas_retrying(t) ==
    /\ pc[t] = "try_lock"
    /\ Attempt(t)
    /\ pc' = [pc EXCEPT ![t] = IF obtained'[t] THEN "try_lock_ret" ELSE "try_lock"]
    /\ since_drop' = "none"
    /\ UNCHANGED <<data, guards, ret, local, T, user_data, last_write>>

\* try_lock(): `if self.try_obtain_lock()`.
try_lock_cas(t) ==
    /\ pc[t] = "try_lock"
    /\ Attempt(t)
    /\ pc' = [pc EXCEPT ![t] = "try_lock_ret"]
    /\ since_drop' = "none"
    /\ UNCHANGED <<data, guards, ret, local, T, user_data, last_write>>

\* A try_lock that hands out a guard whatever try_obtain_lock returned.
try_lock_ret_unchecked(t) ==
    /\ pc[t] = "try_lock_ret"
    /\ guards' = SpinlockGuard(t)
    /\ ret' = [ret EXCEPT ![t] = "Some"]
    /\ pc' = [pc EXCEPT ![t] = "idle"]
    /\ obtained' = [obtained EXCEPT ![t] = FALSE]
    /\ tried' = [tried EXCEPT ![t] = FALSE]
    /\ UNCHANGED <<lock, data, released, fresh, local, T,
                   user_data, last_write, outstanding, acquired_once, since_drop>>

\* A try_lock that clears the flag when it gives up.
try_lock_ret_unlocking(t) ==
    /\ pc[t] = "try_lock_ret"
    /\ guards' = IF obtained[t] THEN SpinlockGuard(t) ELSE guards
    /\ ret' = [ret EXCEPT ![t] = IF obtained[t] THEN "Some" ELSE "None"]
    /\ pc' = [pc EXCEPT ![t] = "idle"]
    /\ obtained' = [obtained EXCEPT ![t] = FALSE]
    /\ tried' = [tried EXCEPT ![t] = FALSE]
    /\ lock' = IF obtained[t] THEN lock ELSE store(lock, FALSE)
    /\ UNCHANGED <<data, released, fresh, local, T,
                   user_data, last_write, outstanding, acquired_once, since_drop>>

\* try_lock(): Some(SpinlockGuard {..}) or None.
try_lock_ret(t) ==
    /\ pc[t] = "try_lock_ret"
    /\ guards' = IF obtained[t] THEN SpinlockGuard(t) ELSE guards
    /\ ret' = [ret EXCEPT ![t] = IF obtained[t] THEN "Some" ELSE "None"]
    /\ pc' = [pc EXCEPT ![t] = "idle"]
    /\ obtained' = [obtained EXCEPT ![t] = FALSE]
    /\ tried' = [tried EXCEPT ![t] = FALSE]
    /\ UNCHANGED <<lock, data, released, fresh, local, T,
                   user_data, last_write, outstanding, acquired_once, since_drop>>

\* Deref::deref through a guard of thread t.  Without the latest write
\* happening-before it the read is a data race and may yield any value.
deref(t) ==
    /\ pc[t] = "idle"
    /\ guards[t] > 0
    /\ \E v \in (IF fresh[t] THEN {data} ELSE T) :
          local' = [local EXCEPT ![t] = Some(v)]
    /\ UNCHANGED <<lock, data, released, fresh, pc, obtained, tried, guards, ret,
                   T, user_data, last_write, outstanding, acquired_once,
                   since_drop>>

\* DerefMut::deref_mut through a guard of thread t, and the assignment of v.
deref_mut(t, v) ==
    /\ pc[t] = "idle"
    /\ guards[t] > 0
    /\ v \in T
    /\ data' \in (IF fresh[t] THEN {v} ELSE T)
    /\ fresh' = [u \in Procs |-> u = t]
    /\ released' = FALSE
    /\ last_write' = Some(<<v, t>>)
    /\ UNCHANGED <<lock, pc, obtained, tried, guards, ret, local, T,
                   user_data, outstanding, acquired_once, since_drop>>

\* A destructor that leaves the flag as it is.
guard_drop_forgotten(cur) == cur

\* A destructor that stores true.
guard_drop_true(cur) == store(cur, TRUE)

\* Drop::drop of a SpinlockGuard: self.lock.store(false, Ordering::SeqCst).
guard_drop(cur) == store(cur, FALSE)

\* The ways the scope owning a guard is left; each runs the guard's destructor.
ExitPaths == {"scope_end", "drop", "return", "unwind"}

\* A release made by the code at the end of the guarded block instead of by
\* the guard's destructor: an unwind passes it by.
drop_at_scope_end(t, how) ==
    /\ pc[t] = "idle"
    /\ guards[t] > 0
    /\ how \in ExitPaths
    /\ lock' = IF how = "unwind" THEN lock ELSE guard_drop(lock)
    /\ released' = IF how = "unwind" THEN released ELSE (IsRelease(StoreOrdering) /\ fresh[t])
    /\ guards' = [guards EXCEPT ![t] = @ - 1]
    /\ outstanding' = IF how = "unwind" THEN outstanding ELSE outstanding - 1
    /\ since_drop' = "free"
    /\ ret' = [ret EXCEPT ![t] = "-"]
    /\ local' = [local EXCEPT ![t] = None]
    /\ pc' = [pc EXCEPT ![t] = IF how = "unwind" THEN "panicked" ELSE "idle"]
    /\ UNCHANGED <<data, fresh, obtained, tried, T, user_data, last_write,
                   acquired_once>>

\* A destructor that also puts the payload back to what new() was given.
drop_resetting(t, how) ==
    /\ pc[t] = "idle"
    /\ guards[t] > 0
    /\ how \in ExitPaths
    /\ lock' = guard_drop(lock)
    /\ released' = (IsRelease(StoreOrdering) /\ fresh[t])
    /\ guards' = [guards EXCEPT ![t] = @ - 1]
    /\ outstanding' = outstanding - 1
    /\ since_drop' = "free"
    /\ ret' = [ret EXCEPT ![t] = "-"]
    /\ local' = [local EXCEPT ![t] = None]
    /\ pc' = [pc EXCEPT ![t] = IF how = "unwind" THEN "panicked" ELSE "idle"]
    /\ data' = user_data
    /\ UNCHANGED <<fresh, obtained, tried, T, user_data, last_write,
                   acquired_once>>

\* Thread t leaves the scope of one of its guards by `how`; an unwind ends
\* the thread.
drop(t, how) ==
    /\ pc[t] = "idle"
    /\ guards[t] > 0
    /\ how \in ExitPaths
    /\ lock' = guard_drop(lock)
    /\ released' = (IsRelease(StoreOrdering) /\ fresh[t])
    /\ guards' = [guards EXCEPT ![t] = @ - 1]
    /\ outstanding' = outstanding - 1
    /\ since_drop' = "free"
    /\ ret' = [ret EXCEPT ![t] = "-"]
    /\ local' = [local EXCEPT ![t] = None]
    /\ pc' = [pc EXCEPT ![t] = IF how = "unwind" THEN "panicked" ELSE "idle"]
    /\ UNCHANGED <<data, fresh, obtained, tried, T, user_data, last_write,
                   acquired_once>>

\* ------------------------------------------------------- the program
\* No acquisition yet, so nobody that won one or dropped its guard.
NoHandoff == [acquirer |-> None, dropper |-> None]

\* The state Spinlock::new(v) leaves, shared with the threads spawned after it.
InitLock(s, ty) ==
    /\ lock = s.lock
    /\ data = s.data
    /\ user_data = s.data
    /\ T = ty
    /\ released = TRUE
    /\ fresh = [t \in Procs |-> TRUE]
    /\ pc = [t \in Procs |-> "idle"]
    /\ obtained = [t \in Procs |-> FALSE]
    /\ tried = [t \in Procs |-> FALSE]
    /\ guards = [t \in Procs |-> 0]
    /\ ret = [t \in Procs |-> "-"]
    /\ local = [t \in Procs |-> None]
    /\ last_write = None
    /\ outstanding = 0
    /\ acquired_once = FALSE
    /\ since_drop = "none"
    /\ SPLCK = INIT_STATIC_SPINLOCK
    /\ static_obtained = [t \in Procs |-> FALSE]
    /\ mark = None
    /\ handoff = NoHandoff

Init ==
    /\ \E v \in Values : InitLock(new(v), Values)
    /\ iter = [t \in Procs |-> 0]
    /\ step = [t \in Procs |-> "-"]
    /\ runtime = FALSE

\* Any client: every spawned thread calls into the lock as it likes.
Next ==
    \E t \in Threads :
        \/ lock_call(t) /\ UNCHANGED hvars
        \/ obtain_lock(t) /\ UNCHANGED hvars
        \/ lock_guard(t) /\ UNCHANGED hvars
        \/ try_lock_call(t) /\ UNCHANGED hvars
        \/ try_lock_cas(t) /\ UNCHANGED hvars
        \/ try_lock_ret(t) /\ UNCHANGED hvars
        \/ deref(t) /\ UNCHANGED hvars
        \/ \E v \in T : deref_mut(t, v) /\ UNCHANGED hvars
        \/ \E how \in ExitPaths : drop(t, how) /\ UNCHANGED hvars

Spec == Init /\ [][Next]_vars

\* ------------------------------------------------------- the increment program
\* The "Thread-safety example": every spawned thread does K times
\*     let mut guard = my_lock.lock(); *guard += 1; drop(guard);
\* (the += being a read and then a write through the guard) and waits at the
\* barrier; past the barrier the main thread reads `*spinlock.lock()`.
InitInc ==
    /\ \E v \in Values : InitLock(new(v), 0 .. (MaxVal + NumThreads * K))
    /\ iter = [t \in Procs |-> 0]
    /\ step = [t \in Procs |-> IF t = Main THEN "wait" ELSE "lock"]
    /\ runtime = FALSE

AtStep(t, from, to) ==
    /\ step[t] = from
    /\ step' = [step EXCEPT ![t] = to]
    /\ UNCHANGED <<SPLCK, static_obtained, runtime, mark, handoff>>

inc_lock(t) == lock_call(t) /\ AtStep(t, "lock", "read") /\ UNCHANGED iter

inc_read(t) == deref(t) /\ AtStep(t, "read", "write") /\ UNCHANGED iter

inc_write(t) ==
    /\ local[t] # None
    /\ deref_mut(t, local[t][1] + 1)
    /\ AtStep(t, "write", "drop")
    /\ UNCHANGED iter

inc_drop(t) ==
    /\ drop(t, "drop")
    /\ AtStep(t, "drop", IF iter[t] + 1 < K THEN "lock" ELSE "barrier")
    /\ iter' = [iter EXCEPT ![t] = @ + 1]

main_lock ==
    /\ \A t \in Threads : step[t] = "barrier"
    /\ lock_call(Main)
    /\ AtStep(Main, "wait", "read")
    /\ UNCHANGED iter

main_read == deref(Main) /\ AtStep(Main, "read", "answer") /\ UNCHANGED iter

main_drop == drop(Main, "scope_end") /\ AtStep(Main, "answer", "done") /\ UNCHANGED iter

NextInc ==
    \/ \E t \in Threads :
        \/ inc_lock(t)
        \/ inc_read(t)
        \/ inc_write(t)
        \/ inc_drop(t)
    \/ main_lock
    \/ main_read
    \/ main_drop
    \/ \E p \in Procs :
        \/ obtain_lock(p) /\ UNCHANGED hvars
        \/ lock_guard(p) /\ UNCHANGED hvars

SpecInc == InitInc /\ [][NextInc]_vars

\* ------------------------------------------------------- the static lock
\* A lock made by Spinlock::new(()) and the static SPLCK made by
\* INIT_STATIC_SPINLOCK, driven by the same calls of the same threads: every
\* step a thread takes on the one it takes on the other.
InitStatic ==
    /\ InitLock(new(Unit), {Unit})
    /\ iter = [t \in Procs |-> 0]
    /\ step = [t \in Procs |-> "-"]
    /\ runtime = FALSE

static_attempt(t) ==
    LET r == try_obtain_lock(SPLCK.lock)
    IN  /\ SPLCK' = [SPLCK EXCEPT !.lock = r.lock]
        /\ static_obtained' = [static_obtained EXCEPT ![t] = r.ok]

static_return(t) ==
    /\ static_obtained' = [static_obtained EXCEPT ![t] = FALSE]
    /\ UNCHANGED SPLCK

static_deref_mut(v) ==
    /\ SPLCK' = [SPLCK EXCEPT !.data = v]
    /\ UNCHANGED static_obtained

static_drop ==
    /\ SPLCK' = [SPLCK EXCEPT !.lock = guard_drop(@)]
    /\ UNCHANGED static_obtained

NextStatic ==
    \E t \in Threads :
        \/ lock_call(t) /\ UNCHANGED hvars
        \/ obtain_lock(t) /\ static_attempt(t) /\ UNCHANGED <<iter, step, runtime, mark, handoff>>
        \/ lock_guard(t) /\ static_return(t) /\ UNCHANGED <<iter, step, runtime, mark, handoff>>
        \/ try_lock_call(t) /\ UNCHANGED hvars
        \/ try_lock_cas(t) /\ static_attempt(t) /\ UNCHANGED <<iter, step, runtime, mark, handoff>>
        \/ try_lock_ret(t) /\ static_return(t) /\ UNCHANGED <<iter, step, runtime, mark, handoff>>
        \/ deref(t) /\ UNCHANGED hvars
        \/ \E v \in T : deref_mut(t, v) /\ static_deref_mut(v) /\ UNCHANGED <<iter, step, runtime, mark, handoff>>
        \/ \E how \in ExitPaths : drop(t, how) /\ static_drop /\ UNCHANGED <<iter, step, runtime, mark, handoff>>

SpecStatic == InitStatic /\ [][NextStatic]_vars

\* ------------------------------------------------------- with or without the runtime
\* "It may be used outside the runtime as well as inside": any client of a
\* Spinlock<()>, started with the runtime present or absent.
InitRuntime ==
    /\ InitLock(new(Unit), {Unit})
    /\ iter = [t \in Procs |-> 0]
    /\ step = [t \in Procs |-> "-"]
    /\ runtime \in BOOLEAN

SpecRuntime == InitRuntime /\ [][Next]_vars

\* ------------------------------------------------------- scheduling
\* A thread that is inside lock() or try_lock() keeps running: the steps of
\* thread t between the call and its return.
Running(t) ==
    /\ \/ obtain_lock(t)
       \/ lock_guard(t)
       \/ try_lock_cas(t)
       \/ try_lock_ret(t)
    /\ UNCHANGED hvars

\* The destruction of a guard of thread t, on any path.
Dropping(t) == (\E how \in ExitPaths : drop(t, how)) /\ UNCHANGED hvars

\* Every thread keeps running inside the crate's calls, and a thread that has
\* a guard again and again drops it in the end.
Fairness == \A t \in Threads : WF_vars(Running(t)) /\ SF_vars(Dropping(t))

\* Any client of a Spinlock<()>, scheduled fairly.
SpecFair == InitStatic /\ [][Next]_vars /\ Fairness

\* ------------------------------------------------------- the contention program
\* Threads that acquire and release the same Spinlock<uint> again and again:
\*     loop { let guard = my_lock.lock(); drop(guard); }
\* `mark` follows one waiting thread over a lap.  It is set when a lock() call
\* fails its first attempt, to that thread and to the program's state then;
\* it notes the thread's later failed attempts and the acquisitions of the
\* other threads, and is cleared when the thread wins the flag.
PState == <<lock, data, released, fresh, pc, obtained, tried, guards, ret, local>>

starve_frame == UNCHANGED <<iter, step, SPLCK, static_obtained, runtime, handoff>>

starve_lock(t) ==
    /\ guards[t] = 0
    /\ lock_call(t)
    /\ UNCHANGED mark
    /\ starve_frame

starve_attempt(t) ==
    /\ obtain_lock(t)
    /\ mark' = IF mark = None
                THEN IF obtained'[t] THEN None
                     ELSE [victim |-> t, at |-> PState', failed |-> FALSE, passed |-> FALSE]
                ELSE IF t = mark.victim
                     THEN IF obtained'[t] THEN None ELSE [mark EXCEPT !.failed = TRUE]
                     ELSE IF obtained'[t] THEN [mark EXCEPT !.passed = TRUE] ELSE mark
    /\ starve_frame

starve_return(t) ==
    /\ lock_guard(t)
    /\ UNCHANGED mark
    /\ starve_frame

starve_drop(t) ==
    /\ drop(t, "drop")
    /\ UNCHANGED mark
    /\ starve_frame

NextStarve ==
    \E t \in Threads :
        \/ starve_lock(t)
        \/ starve_attempt(t)
        \/ starve_return(t)
        \/ starve_drop(t)

SpecStarve == Init /\ [][NextStarve]_vars

\* ------------------------------------------------------- the round-trip program
\* Threads that acquire the lock, by lock() or by try_lock(), look at the
\* payload and drop the guard without writing, K times each:
\*     let guard = my_lock.lock();   or   if let Some(guard) = my_lock.try_lock()
\*     let seen = *guard; drop(guard);
\* A try_lock() that returned None is tried again and is no round.
InitRound ==
    /\ \E v \in Values : InitLock(new(v), Values)
    /\ iter = [t \in Procs |-> 0]
    /\ step = [t \in Procs |-> IF t = Main THEN "-" ELSE "acquire"]
    /\ runtime = FALSE

round_lock(t) == lock_call(t) /\ AtStep(t, "acquire", "wait") /\ UNCHANGED iter

round_try_lock(t) == try_lock_call(t) /\ AtStep(t, "acquire", "wait") /\ UNCHANGED iter

round_lock_guard(t) == lock_guard(t) /\ AtStep(t, "wait", "read") /\ UNCHANGED iter

round_try_lock_ret(t) ==
    /\ try_lock_ret(t)
    /\ AtStep(t, "wait", IF obtained[t] THEN "read" ELSE "acquire")
    /\ UNCHANGED iter

round_read(t) == deref(t) /\ AtStep(t, "read", "drop") /\ UNCHANGED iter

round_drop(t) ==
    /\ drop(t, "drop")
    /\ AtStep(t, "drop", IF iter[t] + 1 < K THEN "acquire" ELSE "done")
    /\ iter' = [iter EXCEPT ![t] = @ + 1]

NextRound ==
    \E t \in Threads :
        \/ round_lock(t)
        \/ round_try_lock(t)
        \/ obtain_lock(t) /\ UNCHANGED hvars
        \/ try_lock_cas(t) /\ UNCHANGED hvars
        \/ round_lock_guard(t)
        \/ round_try_lock_ret(t)
        \/ round_read(t)
        \/ round_drop(t)

SpecRound == InitRound /\ [][NextRound]_vars

\* ------------------------------------------------------- guards that change hands
\* A SpinlockGuard is a value without Clone or Copy: it can be moved, and the
\* guard of a static lock (a SpinlockGuard<'static, ()>) can be moved to
\* another thread.  `handoff` notes which thread won the latest acquisition
\* and which thread dropped its guard.

\* A guard that can be cloned: the sender keeps the one it sends.
move_guard_copying(t, u) ==
    /\ t # u
    /\ pc[t] = "idle"
    /\ pc[u] = "idle"
    /\ guards[t] > 0
    /\ guards' = [guards EXCEPT ![u] = @ + 1]
    /\ fresh' = [fresh EXCEPT ![u] = @ \/ fresh[t]]
    /\ ret' = [ret EXCEPT ![t] = "-"]
    /\ local' = [local EXCEPT ![t] = None]
    /\ UNCHANGED <<lock, data, released, pc, obtained, tried, T, user_data,
                   last_write, outstanding, acquired_once, since_drop>>

\* Thread t hands a guard it owns to thread u, both in their own code; the
\* handing over makes what t has seen visible to u.
move_guard(t, u) ==
    /\ t # u
    /\ pc[t] = "idle"
    /\ pc[u] = "idle"
    /\ guards[t] > 0
    /\ guards' = [guards EXCEPT ![t] = @ - 1, ![u] = @ + 1]
    /\ fresh' = [fresh EXCEPT ![u] = @ \/ fresh[t]]
    /\ ret' = [ret EXCEPT ![t] = "-"]
    /\ local' = [local EXCEPT ![t] = None]
    /\ UNCHANGED <<lock, data, released, pc, obtained, tried, T, user_data,
                   last_write, outstanding, acquired_once, since_drop>>

move_frame == UNCHANGED <<iter, step, SPLCK, static_obtained, runtime, mark>>

\* The attempt of thread t, noting the winner.
move_attempt(t) ==
    /\ handoff' = IF obtained'[t] THEN [acquirer |-> Some(t), dropper |-> None]
                   ELSE handoff
    /\ move_frame

\* The drop of a guard by thread t, noting the dropper.
move_drop(t) ==
    /\ handoff' = [handoff EXCEPT !.dropper = Some(t)]
    /\ move_frame

NextMove ==
    \E t \in Threads :
        \/ lock_call(t) /\ UNCHANGED hvars
        \/ obtain_lock(t) /\ move_attempt(t)
        \/ lock_guard(t) /\ UNCHANGED hvars
        \/ try_lock_call(t) /\ UNCHANGED hvars
        \/ try_lock_cas(t) /\ move_attempt(t)
        \/ try_lock_ret(t) /\ UNCHANGED hvars
        \/ deref(t) /\ UNCHANGED hvars
        \/ \E v \in T : deref_mut(t, v) /\ UNCHANGED hvars
        \/ \E u \in Threads : move_guard(t, u) /\ UNCHANGED hvars
        \/ \E how \in ExitPaths : drop(t, how) /\ move_drop(t)

SpecMove == InitStatic /\ [][NextMove]_vars

\* ------------------------------------------------------- what the claims speak of
RECURSIVE SumOver(_, _)
SumOver(f, S) ==
    IF S = {} THEN 0
    ELSE LET x == CHOOSE y \in S : TRUE IN f[x] + SumOver(f, S \ {x})

\* The live guards of the lock.
LiveGuards == SumOver(guards, Procs)

\* Thread p has won the flag and not yet been handed its guard.
Acquired(p) == pc[p] = "lock_guard" \/ (pc[p] = "try_lock_ret" /\ obtained[p])
Pending == Cardinality({p \in Procs : Acquired(p)})

\* The steps of thread p, told by what they change.
AttemptStep(p) ==
    /\ pc[p] \in {"obtain_lock", "try_lock"}
    /\ (pc'[p] # pc[p] \/ tried'[p] # tried[p])
TryLockAttempt(p) == pc[p] = "try_lock" /\ AttemptStep(p)
TryLockReturn(p) == pc[p] = "try_lock_ret" /\ pc'[p] # pc[p]
DropStep(p) == guards'[p] < guards[p] /\ LiveGuards' < LiveGuards
MoveStep(p, q) == guards'[p] < guards[p] /\ guards'[q] > guards[q]
ReadStep(p) == local'[p] # local[p] /\ local'[p] # None

\* The value a read must see: the one written last, else the one given to new().
Expected == IF last_write = None THEN user_data ELSE last_write[1][1]

\* lock() returns its guard to thread p.
LockReturn(p) == pc[p] = "lock_guard" /\ pc'[p] # pc[p]

\* Thread p owns a live guard of the lock and is in the loop of lock() on it.
Recursive(p) == pc[p] = "obtain_lock" /\ guards[p] > 0

\* An iteration of the loop of lock() by thread p whose attempt fails.
FailedSpin(p) == pc[p] = "obtain_lock" /\ AttemptStep(p) /\ ~obtained'[p]

\* A write through a guard by thread p.
WriteStep(p) == last_write' # last_write /\ last_write'[1][2] = p

\* Thread p calls lock() or try_lock().
CallStep(p) == pc[p] = "idle" /\ pc'[p] \in {"obtain_lock", "try_lock"}

\* A thread other than p is about to make an attempt on the flag.
OthersContend(p) ==
    \E u \in Threads \ {p} : pc[u] \in {"obtain_lock", "try_lock"}

\* ------------------------------------------------------- the claims

\* C1: mutual exclusion.  In every reachable state the lock has at most one
\* live guard, and at most one thread is between a compare_and_swap that won
\* the flag and the drop of the guard it was handed for it.
C1_MutualExclusion == LiveGuards + Pending <= 1

\* C1 witness: one thread holds the guard while another has called lock(),
\* has made an attempt and is still in the loop.
C1_Witness ==
    \E t \in Threads, u \in Threads :
        /\ t # u
        /\ guards[t] = 1
        /\ pc[u] = "obtain_lock"
        /\ tried[u]

\* C2: no lost updates.  Once the NumThreads threads have each done K times
\* lock(); read; write the value read plus one; drop, the payload is the
\* initial value plus NumThreads * K, and that is what the main thread reads
\* through its fresh guard.
C2_NoLostUpdates ==
    /\ (\A t \in Threads : step[t] = "barrier") => data = user_data + NumThreads * K
    /\ step[Main] = "answer" => local[Main] = Some(user_data + NumThreads * K)

\* C2 witness: every thread has finished its K iterations and the main thread
\* has read the payload through its guard.
C2_Witness ==
    /\ \A t \in Threads : iter[t] = K
    /\ step[Main] = "answer"
    /\ guards[Main] = 1
    /\ local[Main] # None

\* C3 (as stated): a try_lock() whose attempt is made while a guard is alive
\* returns None, whoever calls it, and the first try_lock() attempted after a
\* guard was dropped returns Some.
C3_AsStated ==
    [][\A t \in Procs :
          /\ TryLockAttempt(t) /\ LiveGuards >= 1 => ~obtained'[t]
          /\ TryLockAttempt(t) /\ since_drop # "none" => obtained'[t]
          /\ TryLockReturn(t) => (ret'[t] = IF obtained[t] THEN "Some" ELSE "None")]_vars

\* C3 (amended): a try_lock() whose attempt is made while a guard is alive
\* returns None, whoever calls it, and the first try_lock() attempted after a
\* guard was dropped returns Some unless a lock() call has acquired the lock
\* in between.
C3_TryLockExclusive ==
    [][\A t \in Procs :
          /\ TryLockAttempt(t) /\ LiveGuards >= 1 => ~obtained'[t]
          /\ TryLockAttempt(t) /\ since_drop = "free" => obtained'[t]
          /\ TryLockReturn(t) => (ret'[t] = IF obtained[t] THEN "Some" ELSE "None")]_vars

\* C3 witness: a try_lock() has returned None to one thread, and a later
\* try_lock() of another thread has won the flag.
C3_Witness ==
    \E t \in Threads, u \in Threads :
        /\ t # u
        /\ ret[u] = "None"
        /\ pc[t] = "try_lock_ret"
        /\ obtained[t]

\* C4: try_lock() makes exactly one compare_and_swap and then returns: the
\* attempt is its call's first, it wins exactly if the flag was false (and
\* then leaves it true, else leaves it as it was), the call goes on to its
\* return whatever the outcome, and it returns Some with a new guard exactly
\* if the attempt won and None without one otherwise.
C4_TryLockOnce ==
    [][\A t \in Procs :
          /\ TryLockAttempt(t) =>
                /\ ~tried[t]
                /\ obtained'[t] = (lock = FALSE)
                /\ lock' = TRUE
                /\ pc'[t] = "try_lock_ret"
          /\ TryLockReturn(t) =>
                /\ tried[t]
                /\ pc'[t] = "idle"
                /\ ret'[t] = (IF obtained[t] THEN "Some" ELSE "None")
                /\ guards'[t] = guards[t] + (IF obtained[t] THEN 1 ELSE 0)]_vars

\* C4 witness: a try_lock() on the unlocked lock has returned Some to one
\* thread, and a try_lock() of another thread has then returned None.
C4_Witness ==
    \E t \in Threads, u \in Threads :
        /\ t # u
        /\ ret[t] = "Some"
        /\ guards[t] = 1
        /\ ret[u] = "None"
        /\ pc[u] = "idle"

\* C5: release on all exit paths.  However a thread leaves the scope of its
\* guard (end of scope, drop(), early return, unwind), the step that destroys
\* the guard leaves the flag false, so that an attempt made next would win.
C5_ReleaseOnAllPaths ==
    [][\A t \in Procs :
          DropStep(t) => (lock' = FALSE /\ try_obtain_lock(lock').ok)]_vars

\* C5 witness: a thread has unwound out of its guarded block, and another
\* thread has acquired the lock since.
C5_Witness ==
    \E t \in Threads, u \in Threads :
        /\ pc[t] = "panicked"
        /\ guards[u] = 1
        /\ ret[u] \in {"Guard", "Some"}

\* C6: a live guard proves the flag.  In every reachable state in which the
\* lock has a live guard, its flag is true.
C6_GuardImpliesLocked == LiveGuards > 0 => lock = TRUE

\* C6 witness: a thread holds the guard and has written through it, and the
\* try_lock() of another thread has just lost against the flag.
C6_Witness ==
    \E t \in Threads, u \in Threads :
        /\ t # u
        /\ guards[t] = 1
        /\ last_write # None
        /\ last_write[1][2] = t
        /\ pc[u] = "try_lock_ret"
        /\ ~obtained[u]

\* C7: one release per acquisition.  The flag clears never outnumber the
\* successful acquisitions, every acquisition not yet released is owned by
\* exactly one guard (or by the call about to hand it out), and the step that
\* destroys a guard destroys one guard, clears once, finds the flag true and
\* leaves it false.
C7_OneReleasePerAcquisition ==
    /\ [](outstanding >= 0 /\ outstanding = LiveGuards + Pending)
    /\ [][\A t \in Procs :
             DropStep(t) =>
                /\ guards'[t] = guards[t] - 1
                /\ outstanding' = outstanding - 1
                /\ lock = TRUE
                /\ lock' = FALSE]_vars

\* C7 witness: the lock has been acquired, its guard has been dropped and
\* nothing is outstanding: the flag is false again and no thread is inside it.
C7_Witness ==
    /\ acquired_once
    /\ since_drop = "free"
    /\ outstanding = 0
    /\ lock = FALSE
    /\ \A t \in Threads : pc[t] \in {"idle", "panicked"}

\* C8: visibility across guards.  Every read through a guard yields the value
\* written last through any guard of the lock, or the value given to new()
\* if nothing was written yet.
C8_ReadsSeeLastWrite ==
    [][\A t \in Procs : ReadStep(t) => local'[t] = Some(Expected)]_vars

\* C8 witness: a thread holding the guard has read a value that another
\* thread wrote, and that differs from the initial one.
C8_Witness ==
    \E t \in Threads :
        /\ guards[t] = 1
        /\ last_write # None
        /\ last_write[1][2] # t
        /\ last_write[1][1] # user_data
        /\ local[t] = Some(last_write[1][1])

\* C9: a fresh lock is unlocked.  After new(v) the flag is false and the
\* payload is v; the flag stays false until the first acquisition, which is
\* made by the first attempt of its call, whichever of lock() and try_lock()
\* that is; and a read made before any write yields v.
C9_NewIsUnlocked ==
    /\ lock = FALSE /\ data = user_data
    /\ [](~acquired_once => lock = FALSE)
    /\ [][\A t \in Procs :
             /\ AttemptStep(t) /\ ~acquired_once => (~tried[t] /\ obtained'[t])
             /\ ReadStep(t) /\ last_write = None => local'[t] = Some(user_data)]_vars

\* C9 witness: the holder of the guard has read the payload before anything
\* was written, and got the value given to new().
C9_Witness ==
    \E t \in Threads :
        /\ guards[t] = 1
        /\ last_write = None
        /\ local[t] = Some(user_data)

\* C10: the static initializer.  SPLCK, made by INIT_STATIC_SPINLOCK, and the
\* lock made by new(()) start unlocked with the same payload and, taken
\* through the same calls by the same threads, always show the same flag and
\* the same payload and give every thread the same result.
C10_StaticBehavesAsNew ==
    /\ SPLCK.lock = lock
    /\ SPLCK.data = data
    /\ static_obtained = obtained
    /\ ~acquired_once => SPLCK.lock = FALSE

\* C10 witness: both locks are held by the same thread, and the try_lock()
\* of another thread has failed on both.
C10_Witness ==
    \E t \in Threads, u \in Threads :
        /\ t # u
        /\ SPLCK.lock
        /\ lock
        /\ guards[t] = 1
        /\ ret[u] = "None"

\* C11: lock() blocks until it wins and then returns a guard.  A thread in the
\* loop of lock() that holds no guard of the lock itself is in the end handed
\* a guard, unless another thread contends for the flag; and lock() returns
\* only to a thread whose own compare_and_swap found the flag false and set
\* it.
C11_LockReturnsGuard ==
    /\ \A t \in Threads :
          (pc[t] = "obtain_lock" /\ guards[t] = 0)
              ~> ((ret[t] = "Guard" /\ guards[t] > 0) \/ OthersContend(t))
    /\ [][\A t \in Threads : LockReturn(t) => (obtained[t] /\ tried[t] /\ lock)]_vars

\* C11 witness: after a guard was dropped a lock() call has won the flag and
\* has returned its guard, with no other thread inside a call.
C11_Witness ==
    \E t \in Threads :
        /\ ret[t] = "Guard"
        /\ guards[t] = 1
        /\ since_drop = "taken"
        /\ \A u \in Threads \ {t} : pc[u] = "idle" /\ guards[u] = 0

\* C12: acquisition is unfair.  Whenever the flag is false, every thread in
\* the loop of lock() can win it with its next attempt, however long it or
\* any other thread has waited, and every thread outside can call lock(); a
\* thread followed over a lap is, for all the acquisitions of the others,
\* still in the loop of the same call without a guard.
C12_NoOrderAmongWaiters ==
    /\ \A t \in Threads :
          (pc[t] = "obtain_lock" /\ lock = FALSE)
              => ENABLED (starve_attempt(t) /\ pc'[t] = "lock_guard")
    /\ \A t \in Threads :
          (pc[t] = "idle" /\ guards[t] = 0) => ENABLED starve_lock(t)
    /\ mark # None => (pc[mark.victim] = "obtain_lock" /\ guards[mark.victim] = 0)

\* C12 witness: a lap of starvation is closed.  The program is back in the
\* very state in which the waiting thread failed its first attempt; since
\* then that thread has made another attempt and failed, and another thread
\* has won the flag (so the guard held at the start was dropped).  The lap
\* can be repeated for ever, every thread taking steps in each round.
C12_Witness ==
    /\ mark # None
    /\ mark.at = PState
    /\ mark.failed
    /\ mark.passed

\* C13: recursive acquisition deadlocks.  Once a thread that owns a live guard
\* of the lock is in the loop of lock() on the same lock, every later step
\* leaves it there: its attempts fail, its guard stays alive, the call does
\* not return, and the flag stays true.
C13_RecursiveLockSpins ==
    /\ [](\A t \in Threads : Recursive(t) => lock)
    /\ [][\A t \in Threads :
            Recursive(t) => /\ pc'[t] = "obtain_lock"
                            /\ guards'[t] = guards[t]
                            /\ ~obtained'[t]
                            /\ lock']_vars

\* C13 witness: a thread with a live guard has called lock() again and has
\* made a failed attempt.
C13_Witness ==
    \E t \in Threads : Recursive(t) /\ tried[t] /\ guards[t] = 1 /\ ret[t] = "-"

\* C14: when the runtime is present, a thread waiting in lock() calls the
\* deschedule function between failed attempts: a failed attempt of the loop
\* is followed by a deschedule step of that thread, not directly by the next
\* compare_and_swap.  The crate's documentation promises it; the loop of
\* obtain_lock has an empty body, and TLC finds the property violated.
C14_DeschedulesWhileWaiting ==
    [][\A t \in Threads : (runtime /\ FailedSpin(t)) => pc'[t] = "deschedule"]_vars

\* C15: the flag is a two-state machine.  It is always true or false; it goes
\* from false to true only in a step that is a winning compare_and_swap of a
\* lock() or try_lock() call, and from true to false only in a step that
\* destroys a guard; every other step (a failed attempt, a call, a return, a
\* read or a write through the guard) leaves it as it is.
C15_FlagTransitions ==
    /\ [](lock \in BOOLEAN)
    /\ [][/\ (~lock /\ lock') => \E t \in Procs : AttemptStep(t) /\ obtained'[t]
          /\ (lock /\ ~lock') => \E t \in Procs : DropStep(t)
          /\ \A t \in Procs : (AttemptStep(t) /\ obtained'[t]) => (~lock /\ lock')
          /\ \A t \in Procs : DropStep(t) => (lock /\ ~lock')
          /\ \A t \in Procs : (AttemptStep(t) /\ ~obtained'[t]) => lock' = lock
          /\ \A t \in Procs : (ReadStep(t) \/ WriteStep(t)) => lock' = lock]_vars

\* C15 witness: the flag has gone from false to true, back to false by a
\* drop, and to true again by a lock() call, and a value has been written
\* through a guard on the way.
C15_Witness ==
    /\ lock
    /\ since_drop = "taken"
    /\ last_write # None

C17_PayloadFrame ==
    [][/\ data' # data
            => \E t \in Procs : /\ WriteStep(t)
                                /\ guards[t] > 0
                                /\ pc[t] = "idle"
                                /\ data' = last_write'[1][1]
       /\ \A t \in Procs :
            (AttemptStep(t) \/ TryLockReturn(t) \/ LockReturn(t) \/ ReadStep(t)
                \/ CallStep(t))
                => data' = data /\ last_write' = last_write
       /\ \A t \in Procs :
            DropStep(t) => /\ data' = data
                           /\ last_write' = last_write
                           /\ lock' = FALSE
                           /\ guards'[t] = guards[t] - 1
                           /\ \A u \in Procs \ {t} :
                                 /\ guards'[u] = guards[u]
                                 /\ pc'[u] = pc[u]
                                 /\ local'[u] = local[u]
                                 /\ obtained'[u] = obtained[u]]_vars

\* C17 witness: a value other than the initial one was written through a
\* guard, the guard was dropped, and a later try_lock() failed and a later
\* lock() won, the payload still being the value written.
C17_Witness ==
    /\ last_write # None
    /\ data = last_write[1][1]
    /\ data # user_data
    /\ since_drop = "taken"
    /\ \E t \in Threads : ret[t] = "None"

\* C18: acquire-then-drop is a round trip.  When a guard that was not written
\* through is dropped, the lock is as it was before the acquisition: the flag
\* false, the payload the one it had.  So an attempt made when every earlier
\* guard has been dropped wins, in every round and by lock() as by
\* try_lock(), and every read of every round sees the same payload.
C18_AcquireDropRoundTrip ==
    /\ [](data = user_data)
    /\ [](\A t \in Threads : local[t] # None => local[t] = Some(user_data))
    /\ [][\A t \in Threads :
            /\ DropStep(t) => (lock /\ lock' = FALSE /\ data' = data /\ outstanding' = 0)
            /\ (AttemptStep(t) /\ outstanding = 0)
                  => (lock = FALSE /\ obtained'[t] /\ data' = data)]_vars

\* C18 witness: with the other threads yet to start, one thread has finished
\* K - 1 rounds and in its K-th holds the guard and has read the payload
\* given to new().
C18_Witness ==
    \E t \in Threads :
        /\ iter[t] = K - 1
        /\ step[t] = "drop"
        /\ guards[t] = 1
        /\ local[t] = Some(user_data)
        /\ \A u \in Threads \ {t} : iter[u] = 0 /\ step[u] = "acquire"

\* C19: deadlock freedom.  From a state in which some thread is in the loop
\* of lock(), some thread wins the flag later on, unless a thread is in that
\* loop while owning a guard of the lock; and whenever the flag is false,
\* every thread in the loop wins with its next attempt, so the lock is never
\* free with waiters none of which can take it.
C19_DeadlockFreedom ==
    /\ (\E t \in Threads : pc[t] = "obtain_lock")
          ~> (\/ \E u \in Threads : Acquired(u)
              \/ \E u \in Threads : Recursive(u))
    /\ [][\A t \in Threads :
            (pc[t] = "obtain_lock" /\ ~lock /\ AttemptStep(t)) => Acquired(t)']_vars
    /\ [](\A t \in Threads : (pc[t] = "obtain_lock" /\ ~lock) => ENABLED Running(t))

\* C19 witness: a thread that has waited in the loop of lock(), having failed
\* an attempt while another thread owned the guard, is still there when a
\* thread has just won the flag after that guard's drop.
C19_Witness ==
    \E t \in Threads, u \in Threads :
        /\ t # u
        /\ pc[t] = "obtain_lock"
        /\ tried[t]
        /\ guards[t] = 0
        /\ pc[u] = "lock_guard"
        /\ since_drop = "taken"

\* C20: a guard may be moved but never duplicated.  A step that hands a guard
\* to another thread leaves the number of live guards, the flag (true) and
\* the count of acquisitions as they were; the drop of a guard clears the
\* flag and settles the one acquisition outstanding, whichever thread makes
\* it, the one that acquired or another; and in every state, before, during
\* and after a move, the lock has at most one live guard.
C20_GuardMovesNotCopies ==
    /\ [](LiveGuards + Pending <= 1)
    /\ [](LiveGuards = 1 => lock /\ outstanding = 1)
    /\ [][\A t \in Threads, u \in Threads :
            MoveStep(t, u) => /\ LiveGuards' = LiveGuards
                              /\ guards'[u] = 1
                              /\ guards'[t] = 0
                              /\ lock /\ lock'
                              /\ outstanding' = outstanding
                              /\ handoff' = handoff]_vars
    /\ [][\A t \in Threads :
            DropStep(t) => /\ lock /\ ~lock'
                           /\ outstanding = 1 /\ outstanding' = 0
                           /\ LiveGuards' = 0
                           /\ handoff'.dropper = Some(t)
                           /\ handoff'.acquirer = handoff.acquirer]_vars

\* C20 witness: the guard of the latest acquisition was dropped by a thread
\* other than the one that acquired it, and the flag is false with no guard
\* alive.
C20_Witness ==
    /\ handoff.acquirer # None
    /\ handoff.dropper # None
    /\ handoff.dropper # handoff.acquirer
    /\ lock = FALSE
    /\ LiveGuards = 0
    /\ outstanding = 0
====
